---------------------------- MODULE Spec2Model ----------------------------
(***************************************************************************)
(* steadyhash: a model of main.rs (alias resolution, the file loop,        *)
(* checksum_files, check_files) and of the digest engines' width           *)
(* validation (hashing/*.rs).                                              *)
(*                                                                         *)
(* Text is modelled as sequences of one-character strings, so that         *)
(* splitting, trimming, case folding and formatting are computed the way   *)
(* the code computes them.  The hash primitives of the external crates     *)
(* (sha1, sha2, sha3, blake2, md5) are abstracted by RawDigest: a          *)
(* deterministic function of (primitive, output length, data) that returns *)
(* the requested number of bytes; the hex encoding of those bytes is       *)
(* modelled exactly.                                                       *)
(***************************************************************************)
EXTENDS Integers, Sequences, FiniteSets, TLC

VARIABLES
    args,        \* the parsed command line (struct Args)
    fs,          \* the file system: path -> [ok, data]
    stdinBuf,    \* what is still unread on standard input
    pc,          \* position of main: start, loop, check, done, failed, panicked
    checksum,    \* main's `checksum` (the resolved Checksum variant)
    bit_length,  \* main's `bit_length`
    fileIdx,     \* index of the current element of args.file_path
    lines,       \* check_files: contents.lines() of the manifest being checked
    lineIdx,     \* check_files: index of the manifest line to process next
    out,         \* standard output: one record per println!
    err,         \* the Err main returned, or the panic that ended it
    opened,      \* every path File::open was called on, in call order
    rt           \* the codec round-trip harness (SpecCodec only)

vars == <<args, fs, stdinBuf, pc, checksum, bit_length, fileIdx, lines,
          lineIdx, out, err, opened, rt>>

-----------------------------------------------------------------------------
(* Bounds of the model.                                                    *)

MaxFiles == 2

MaxLines == 2

MaxWidth == 520

-----------------------------------------------------------------------------
(* Text helpers: the std string operations the code calls.                 *)

UpperChars == <<"A","B","C","D","E","F","G","H","I","J","K","L","M",
                "N","O","P","Q","R","S","T","U","V","W","X","Y","Z">>

LowerChars == <<"a","b","c","d","e","f","g","h","i","j","k","l","m",
                "n","o","p","q","r","s","t","u","v","w","x","y","z">>

HexChars == <<"0","1","2","3","4","5","6","7","8","9","a","b","c","d","e","f">>

DecChars == <<"0","1","2","3","4","5","6","7","8","9">>

\* char::to_ascii_lowercase
LowerChar(c) ==
    IF \E i \in 1..26 : UpperChars[i] = c
    THEN LowerChars[CHOOSE i \in 1..26 : UpperChars[i] = c]
    ELSE c

\* char::to_ascii_uppercase (used only to build inputs)
UpperChar(c) ==
    IF \E i \in 1..26 : LowerChars[i] = c
    THEN UpperChars[CHOOSE i \in 1..26 : LowerChars[i] = c]
    ELSE c

\* str::to_ascii_lowercase
ToAsciiLowercase(s) == [i \in 1..Len(s) |-> LowerChar(s[i])]

ToAsciiUppercase(s) == [i \in 1..Len(s) |-> UpperChar(s[i])]

\* str::eq_ignore_ascii_case
EqIgnoreAsciiCase(s, t) == ToAsciiLowercase(s) = ToAsciiLowercase(t)

\* char::is_whitespace, on the characters the model uses
IsWhitespace(c) == c \in {" ", "\t", "\n", "\r"}

\* the k-th smallest element of a finite set of integers
Nth(S, k) == CHOOSE i \in S : Cardinality({j \in S : j < i}) = k - 1

\* str::split_whitespace().collect(): the maximal runs of non-whitespace
SplitWhitespace(s) ==
    LET starts == {i \in 1..Len(s) :
                      ~IsWhitespace(s[i]) /\ (i = 1 \/ IsWhitespace(s[i - 1]))}
        ends == {i \in 1..Len(s) :
                      ~IsWhitespace(s[i]) /\ (i = Len(s) \/ IsWhitespace(s[i + 1]))}
    IN  [k \in 1..Cardinality(starts) |-> SubSeq(s, Nth(starts, k), Nth(ends, k))]

\* One line with its line ending removed: "\n", or "\r\n".
StripCr(l) ==
    IF Len(l) > 0 /\ l[Len(l)] = "\r" THEN SubSeq(l, 1, Len(l) - 1) ELSE l

\* str::lines().collect(): the text between newlines; a last line needs no
\* newline, and no empty line follows the last newline
Lines(s) ==
    LET nl == {i \in 1..Len(s) : s[i] = "\n"}
        n == Cardinality(nl)
        from(k) == IF k = 1 THEN 1 ELSE Nth(nl, k - 1) + 1
        last == IF n = 0 THEN 1 ELSE Nth(nl, n) + 1
    IN  [k \in 1..n |-> StripCr(SubSeq(s, from(k), Nth(nl, k) - 1))]
        \o (IF last <= Len(s) THEN <<SubSeq(s, last, Len(s))>> ELSE <<>>)

\* str::starts_with(char)
StartsWith(s, c) == Len(s) > 0 /\ s[1] = c

RECURSIVE TrimStartMatches(_, _)
TrimStartMatches(s, c) ==
    IF StartsWith(s, c) THEN TrimStartMatches(Tail(s), c) ELSE s

RECURSIVE TrimEndMatches(_, _)
TrimEndMatches(s, c) ==
    IF Len(s) > 0 /\ s[Len(s)] = c
    THEN TrimEndMatches(SubSeq(s, 1, Len(s) - 1), c)
    ELSE s

RECURSIVE ToDecimal(_)
\* Display of a usize
ToDecimal(n) ==
    IF n < 10 THEN <<DecChars[n + 1]>>
    ELSE Append(ToDecimal(n \div 10), DecChars[(n % 10) + 1])

RECURSIVE Concat(_)
\* the concatenation of a sequence of texts
Concat(ss) == IF ss = <<>> THEN <<>> ELSE Head(ss) \o Concat(Tail(ss))

-----------------------------------------------------------------------------
(* The digest engines (hashing/*.rs).                                      *)

Alphabet == LowerChars \o UpperChars \o DecChars \o
            <<" ", "\t", "\n", "\r", "(", ")", "=", "-", ".", "/", ":">>

\* the byte value of a character of the model (its position in Alphabet)
CharCode(c) == CHOOSE i \in 1..Len(Alphabet) : Alphabet[i] = c

RECURSIVE Weight(_, _, _)
\* a position-weighted sum of the bytes data[lo..hi], modulo 256
Weight(data, lo, hi) ==
    IF lo > hi THEN 0
    ELSE IF lo = hi THEN (CharCode(data[lo]) * lo) % 256
    ELSE LET mid == (lo + hi) \div 2
         IN  (Weight(data, lo, mid) + Weight(data, mid + 1, hi)) % 256

PrimitiveSeed(prim) ==
    CASE prim = "Sha1" -> 11
      [] prim = "Sha224" -> 23
      [] prim = "Sha256" -> 41
      [] prim = "Sha384" -> 59
      [] prim = "Sha512" -> 73
      [] prim = "Sha3_224" -> 89
      [] prim = "Sha3_256" -> 101
      [] prim = "Sha3_384" -> 127
      [] prim = "Sha3_512" -> 149
      [] prim = "Md5" -> 167
      [] prim = "Blake2bVar" -> 191

\* The external hash primitives, abstracted: n bytes that depend on the
\* primitive, on the output length and on every byte of the data.
RawDigest(prim, n, data) ==
    [k \in 1..n |-> (PrimitiveSeed(prim) + 3 * n + Weight(data, 1, Len(data)) + 37 * k) % 256]

\* hex::encode, format!("{:x}") and the "{:02x}" loop: two lowercase hex
\* digits per byte
HexEncode(bytes) ==
    [i \in 1..(2 * Len(bytes)) |->
        IF i % 2 = 1 THEN HexChars[(bytes[(i + 1) \div 2] \div 16) + 1]
        ELSE HexChars[(bytes[i \div 2] % 16) + 1]]

InvalidChecksumType(family, value) ==
    [kind |-> "InvalidChecksumType", family |-> family, value |-> value]

ShaValidValues == {160, 224, 256, 384, 512}

ShaNew(checksum_type, data) ==
    IF checksum_type \notin ShaValidValues
    THEN [ok |-> FALSE, err |-> InvalidChecksumType("SHA", checksum_type)]
    ELSE [ok |-> TRUE, checksum_bits |-> checksum_type, data |-> data]

ShaGetChecksum(self) ==
    CASE self.checksum_bits = 160 ->
            [tag |-> "ok", value |-> HexEncode(RawDigest("Sha1", 20, self.data))]
      [] self.checksum_bits = 224 ->
            [tag |-> "ok", value |-> HexEncode(RawDigest("Sha224", 28, self.data))]
      [] self.checksum_bits = 256 ->
            [tag |-> "ok", value |-> HexEncode(RawDigest("Sha256", 32, self.data))]
      [] self.checksum_bits = 384 ->
            [tag |-> "ok", value |-> HexEncode(RawDigest("Sha384", 48, self.data))]
      [] self.checksum_bits = 512 ->
            [tag |-> "ok", value |-> HexEncode(RawDigest("Sha512", 64, self.data))]
      [] OTHER -> [tag |-> "unreachable"]

Sha3ValidValues == {224, 256, 384, 512}

\* Sha3SumError::UnexpectedError("invalid sha3sum type")
UnexpectedError == [kind |-> "UnexpectedError"]

Sha3New(checksum_type, data) ==
    IF checksum_type \notin Sha3ValidValues
    THEN [ok |-> FALSE, err |-> InvalidChecksumType("SHA3", checksum_type)]
    ELSE [ok |-> TRUE, checksum_type |-> checksum_type, data |-> data]

Sha3GetChecksum(self) ==
    CASE self.checksum_type = 224 ->
            [tag |-> "ok", value |-> HexEncode(RawDigest("Sha3_224", 28, self.data))]
      [] self.checksum_type = 256 ->
            [tag |-> "ok", value |-> HexEncode(RawDigest("Sha3_256", 32, self.data))]
      [] self.checksum_type = 384 ->
            [tag |-> "ok", value |-> HexEncode(RawDigest("Sha3_384", 48, self.data))]
      [] self.checksum_type = 512 ->
            [tag |-> "ok", value |-> HexEncode(RawDigest("Sha3_512", 64, self.data))]
      [] OTHER -> [tag |-> "err", err |-> UnexpectedError]

Blake2bValidValues ==
    {8, 16, 24, 32, 40, 48, 56, 64, 72, 80, 88, 96, 104, 112, 120, 128, 136,
     144, 152, 160, 168, 176, 184, 192, 200, 208, 216, 224, 232, 240, 248,
     256, 264, 272, 280, 288, 296, 304, 312, 320, 328, 336, 344, 352, 360,
     368, 376, 384, 392, 400, 408, 416, 424, 432, 440, 448, 456, 464, 472,
     480, 488, 496, 504, 512}

\* Blake2bNew with the range of the table forgotten: any multiple of 8
Blake2bNewMultipleOf8(checksum_type, data) ==
    IF checksum_type % 8 # 0
    THEN [ok |-> FALSE, err |-> InvalidChecksumType("BLAKE2B", checksum_type)]
    ELSE [ok |-> TRUE, checksum_type |-> checksum_type, data |-> data]

Blake2bNew(checksum_type, data) ==
    IF checksum_type \notin Blake2bValidValues
    THEN [ok |-> FALSE, err |-> InvalidChecksumType("BLAKE2B", checksum_type)]
    ELSE [ok |-> TRUE, checksum_type |-> checksum_type, data |-> data]

Blake2bGetChecksum(self) ==
    LET bits == self.checksum_type IN
    IF bits = 0 \/ bits % 8 # 0 \/ bits > 512
    THEN [tag |-> "unreachable"]
    ELSE [tag |-> "ok",
          value |-> HexEncode(RawDigest("Blake2bVar", bits \div 8, self.data))]

Md5New(data) == [data |-> data]

Md5GetChecksum(self) ==
    [tag |-> "ok", value |-> HexEncode(RawDigest("Md5", 16, self.data))]

\* calculate_checksum: [tag |-> "ok", value], [tag |-> "err", err], or
\* [tag |-> "unreachable"] when a get_checksum fallback arm is taken
CalculateChecksum(kind, bits, data) ==
    CASE kind = "Sha" ->
            LET r == ShaNew(bits, data) IN
            IF r.ok THEN ShaGetChecksum(r) ELSE [tag |-> "err", err |-> r.err]
      [] kind = "Blake2b" ->
            LET r == Blake2bNew(bits, data) IN
            IF r.ok THEN Blake2bGetChecksum(r) ELSE [tag |-> "err", err |-> r.err]
      [] kind = "Md5" -> Md5GetChecksum(Md5New(data))
      [] kind = "Sha3" ->
            LET r == Sha3New(bits, data) IN
            IF r.ok THEN Sha3GetChecksum(r) ELSE [tag |-> "err", err |-> r.err]

-----------------------------------------------------------------------------
(* Checksum::from_str (main.rs).                                           *)

BLAKE2B_VALUES == { <<"b","l","a","k","e">>, <<"b","2">>,
                    <<"b","l","a","k","e","2">>,
                    <<"b","l","a","k","e","2","b">> }

\* FromStr with "sha" compared as typed
FromStrCaseSensitive(s) ==
    IF ToAsciiLowercase(s) \in BLAKE2B_VALUES THEN [ok |-> TRUE, value |-> "Blake2b"]
    ELSE IF s = <<"s","h","a">> THEN [ok |-> TRUE, value |-> "Sha"]
    ELSE IF EqIgnoreAsciiCase(s, <<"m","d","5">>) THEN [ok |-> TRUE, value |-> "Md5"]
    ELSE IF EqIgnoreAsciiCase(s, <<"s","h","a","3">>) THEN [ok |-> TRUE, value |-> "Sha3"]
    ELSE [ok |-> FALSE, err |-> [kind |-> "ParseChecksumError", value |-> s]]

FromStr(s) ==
    IF ToAsciiLowercase(s) \in BLAKE2B_VALUES THEN [ok |-> TRUE, value |-> "Blake2b"]
    ELSE IF EqIgnoreAsciiCase(s, <<"s","h","a">>) THEN [ok |-> TRUE, value |-> "Sha"]
    ELSE IF EqIgnoreAsciiCase(s, <<"m","d","5">>) THEN [ok |-> TRUE, value |-> "Md5"]
    ELSE IF EqIgnoreAsciiCase(s, <<"s","h","a","3">>) THEN [ok |-> TRUE, value |-> "Sha3"]
    ELSE [ok |-> FALSE, err |-> [kind |-> "ParseChecksumError", value |-> s]]

-----------------------------------------------------------------------------
(* The manifest codec: the println! arms of checksum_files and the line    *)
(* decoder of check_files.                                                 *)

\* the output line of checksum_files (without the newline println! adds)
RenderLine(kind, bits, bsd, path, digest) ==
    CASE kind = "Sha" ->
            IF bsd
            THEN IF bits = 160
                 THEN Concat(<< <<"S","H","A","1"," ","(">>, path,
                                <<")"," ","="," ">>, digest >>)
                 ELSE Concat(<< <<"S","H","A">>, ToDecimal(bits), <<" ","(">>, path,
                                <<")"," ","="," ">>, digest >>)
            ELSE Concat(<< digest, <<" ">>, path >>)
      [] kind = "Blake2b" ->
            IF bsd
            THEN Concat(<< <<"B","L","A","K","E","2","b","-">>, ToDecimal(bits),
                           <<" ","(">>, path, <<")"," ","="," ">>, digest >>)
            ELSE Concat(<< digest, <<" "," ">>, path >>)
      [] kind = "Md5" ->
            IF bsd
            THEN Concat(<< <<"M","D","5"," ","(">>, path, <<")"," ","="," ">>, digest >>)
            ELSE Concat(<< digest, <<" "," ">>, path >>)
      [] kind = "Sha3" ->
            IF bsd
            THEN Concat(<< <<"S","H","A","3","-">>, ToDecimal(bits),
                           <<" ","(">>, path, <<")"," ","="," ">>, digest >>)
            ELSE Concat(<< digest, <<" "," ">>, path >>)

\* SkipLine with the threshold off by one
SkipLineEmptyOnly(parts) == Len(parts) < 1

\* `if parts.len() < 2 { continue; }`
SkipLine(parts) == Len(parts) < 2

\* DecodeLine taking the tagged style's digest one token early (the "=")
DecodeLineThirdToken(parts) ==
    IF Len(parts) >= 2 /\ StartsWith(parts[2], "(")
    THEN IF Len(parts) < 3
         THEN [tag |-> "panic"]
         ELSE [tag |-> "ok", expected |-> parts[3],
               path |-> TrimEndMatches(TrimStartMatches(parts[2], "("), ")")]
    ELSE IF Len(parts) < 2
         THEN [tag |-> "panic"]
         ELSE [tag |-> "ok", expected |-> parts[1], path |-> parts[2]]

\* The (expected_checksum, file_path) pair of a manifest line's tokens.
\* parts[k] of the code is parts[k + 1] here; an index past the end panics.
DecodeLine(parts) ==
    IF Len(parts) >= 2 /\ StartsWith(parts[2], "(")
    THEN IF Len(parts) < 4
         THEN [tag |-> "panic"]
         ELSE [tag |-> "ok", expected |-> parts[4],
               path |-> TrimEndMatches(TrimStartMatches(parts[2], "("), ")")]
    ELSE IF Len(parts) < 2
         THEN [tag |-> "panic"]
         ELSE [tag |-> "ok", expected |-> parts[1], path |-> parts[2]]

\* ChecksumMatches comparing without regard to case
ChecksumMatchesIgnoringCase(actual, expected) == EqIgnoreAsciiCase(actual, expected)

\* `actual_checksum == expected_checksum`
ChecksumMatches(actual, expected) == actual = expected

\* the line check_files prints for one entry
ResultLine(path, ok) ==
    path \o (IF ok THEN <<":"," ","O","K">> ELSE <<":"," ","F","A","I","L","E","D">>)

-----------------------------------------------------------------------------
(* The file system and the outcomes of main.                               *)

Io(path) == [kind |-> "Io", path |-> path]

NoError == [kind |-> "none"]

IndexOutOfBounds == [kind |-> "Panic", what |-> "index out of bounds"]

UnwrapNone == [kind |-> "Panic", what |-> "unwrap on None"]

Unreachable == [kind |-> "Panic", what |-> "unreachable"]

\* File::open followed by read_to_end / read_to_string
OpenAndRead(files, path) ==
    IF path \in DOMAIN files /\ files[path].ok
    THEN [ok |-> TRUE, data |-> files[path].data]
    ELSE [ok |-> FALSE, err |-> Io(path)]

None == [some |-> FALSE]

Some(v) == [some |-> TRUE, value |-> v]

Md5Bits == 128

\* ResolveBitLength without the Md5 case: the option is always unwrapped
ResolveBitLengthUnwrap(kind, opt) ==
    IF opt.some THEN [ok |-> TRUE, value |-> opt.value] ELSE [ok |-> FALSE]

\* `if checksum == Checksum::Md5 { 128 } else { args.bit_length.unwrap() }`
ResolveBitLength(kind, opt) ==
    IF kind = "Md5" THEN [ok |-> TRUE, value |-> Md5Bits]
    ELSE IF opt.some THEN [ok |-> TRUE, value |-> opt.value]
    ELSE [ok |-> FALSE]

-----------------------------------------------------------------------------
(* checksum_files and one iteration of check_files' loop, as results:      *)
(* the paths opened, and a printed line, an Err or a panic.                *)

Printed(text) == [tag |-> "line", text |-> text]

Failed(e) == [tag |-> "err", err |-> e]

Panicked(e) == [tag |-> "panic", err |-> e]

\* a calculate_checksum result once `?` is applied to it: the digest is
\* printed in the line `text`, or the Err or the panic ends main
OnDigest(c, text) ==
    CASE c.tag = "ok" -> Printed(text)
      [] c.tag = "err" -> Failed(c.err)
      [] c.tag = "unreachable" -> Panicked(Unreachable)

\* ChecksumFilesResult hashing nothing when the file cannot be read, instead
\* of returning the I/O error
ChecksumFilesResultLenient(kind, a, file, bits, stdinData, files) ==
    LET read == IF a.stdin THEN [ok |-> TRUE, data |-> stdinData]
                ELSE OpenAndRead(files, file)
        data == IF read.ok THEN read.data ELSE <<>>
        c == CalculateChecksum(kind, bits, data)
    IN  [opened |-> IF a.stdin THEN <<>> ELSE <<file>>,
         stdinLeft |-> IF a.stdin THEN <<>> ELSE stdinData,
         outcome |-> OnDigest(c, RenderLine(kind, bits, a.bsd, file, c.value))]

\* checksum_files(checksum, args, file, bit_length)
ChecksumFilesResult(kind, a, file, bits, stdinData, files) ==
    LET read == IF a.stdin THEN [ok |-> TRUE, data |-> stdinData]
                ELSE OpenAndRead(files, file)
        c == CalculateChecksum(kind, bits, read.data)
    IN  [opened |-> IF a.stdin THEN <<>> ELSE <<file>>,
         stdinLeft |-> IF a.stdin THEN <<>> ELSE stdinData,
         outcome |-> IF ~read.ok THEN Failed(read.err)
                     ELSE OnDigest(c, RenderLine(kind, bits, a.bsd, file, c.value))]

\* the body of `for line in contents.lines()` in check_files
CheckEntry(kind, bits, files, line) ==
    LET parts == SplitWhitespace(line)
        d == DecodeLine(parts)
        read == OpenAndRead(files, d.path)
        c == CalculateChecksum(kind, bits, read.data)
    IN  IF SkipLine(parts)
        THEN [skip |-> TRUE, opened |-> <<>>, outcome |-> NoError]
        ELSE IF d.tag = "panic"
        THEN [skip |-> FALSE, opened |-> <<>>, outcome |-> Panicked(IndexOutOfBounds)]
        ELSE [skip |-> FALSE, opened |-> <<d.path>>,
              outcome |-> IF ~read.ok THEN Failed(read.err)
                          ELSE OnDigest(c, ResultLine(d.path,
                                                    ChecksumMatches(c.value, d.expected)))]

-----------------------------------------------------------------------------
(* main.                                                                   *)

\* main, lines 100-107: resolve the algorithm and the width
MainStart ==
    /\ pc = "start"
    /\ LET r == FromStr(args.checksum_type)
           b == ResolveBitLength(r.value, args.bit_length)
       IN  IF ~r.ok
           THEN /\ pc' = "failed"
                /\ err' = r.err
                /\ UNCHANGED <<checksum, bit_length>>
           ELSE IF ~b.ok
           THEN /\ pc' = "panicked"
                /\ err' = UnwrapNone
                /\ checksum' = r.value
                /\ UNCHANGED bit_length
           ELSE /\ pc' = "loop"
                /\ checksum' = r.value
                /\ bit_length' = b.value
                /\ UNCHANGED err
    /\ UNCHANGED <<args, fs, stdinBuf, fileIdx, lines, lineIdx, out, opened, rt>>

\* main, lines 109-117: the file loop is exhausted
MainReturn ==
    /\ pc = "loop"
    /\ fileIdx > Len(args.file_path)
    /\ pc' = "done"
    /\ UNCHANGED <<args, fs, stdinBuf, checksum, bit_length, fileIdx, lines,
                   lineIdx, out, err, opened, rt>>

\* one iteration of main's loop without --check: checksum_files(...)?
ChecksumFiles ==
    /\ pc = "loop"
    /\ fileIdx <= Len(args.file_path)
    /\ ~args.check
    /\ LET r == ChecksumFilesResult(checksum, args, args.file_path[fileIdx],
                                    bit_length, stdinBuf, fs)
       IN  /\ opened' = opened \o r.opened
           /\ stdinBuf' = r.stdinLeft
           /\ IF r.outcome.tag = "line"
              THEN /\ out' = Append(out, [text |-> r.outcome.text,
                                          file |-> fileIdx, line |-> 0])
                   /\ fileIdx' = fileIdx + 1
                   /\ UNCHANGED <<pc, err>>
              ELSE /\ pc' = IF r.outcome.tag = "err" THEN "failed" ELSE "panicked"
                   /\ err' = r.outcome.err
                   /\ UNCHANGED <<out, fileIdx>>
    /\ UNCHANGED <<args, fs, checksum, bit_length, lines, lineIdx, rt>>

\* check_files, lines 121-125: open the manifest and read it as text
CheckFilesOpen ==
    /\ pc = "loop"
    /\ fileIdx <= Len(args.file_path)
    /\ args.check
    /\ LET file == args.file_path[fileIdx]
           r == OpenAndRead(fs, file)
       IN  /\ opened' = Append(opened, file)
           /\ IF r.ok
              THEN /\ lines' = Lines(r.data)
                   /\ lineIdx' = 1
                   /\ pc' = "check"
                   /\ UNCHANGED err
              ELSE /\ pc' = "failed"
                   /\ err' = r.err
                   /\ UNCHANGED <<lines, lineIdx>>
    /\ UNCHANGED <<args, fs, stdinBuf, checksum, bit_length, fileIdx, out, rt>>

\* check_files, lines 127-159: one manifest line
CheckLine ==
    /\ pc = "check"
    /\ lineIdx <= Len(lines)
    /\ LET r == CheckEntry(checksum, bit_length, fs, lines[lineIdx])
       IN  /\ opened' = opened \o r.opened
           /\ IF r.skip
              THEN /\ lineIdx' = lineIdx + 1
                   /\ UNCHANGED <<pc, err, out>>
              ELSE IF r.outcome.tag = "line"
              THEN /\ out' = Append(out, [text |-> r.outcome.text,
                                          file |-> fileIdx, line |-> lineIdx])
                   /\ lineIdx' = lineIdx + 1
                   /\ UNCHANGED <<pc, err>>
              ELSE /\ pc' = IF r.outcome.tag = "err" THEN "failed" ELSE "panicked"
                   /\ err' = r.outcome.err
                   /\ UNCHANGED <<out, lineIdx>>
    /\ UNCHANGED <<args, fs, stdinBuf, checksum, bit_length, fileIdx, lines, rt>>

\* check_files, line 161: Ok(()), and main's loop moves to the next file
CheckFilesReturn ==
    /\ pc = "check"
    /\ lineIdx > Len(lines)
    /\ pc' = "loop"
    /\ fileIdx' = fileIdx + 1
    /\ UNCHANGED <<args, fs, stdinBuf, checksum, bit_length, lines, lineIdx,
                   out, err, opened, rt>>

Next ==
    \/ MainStart
    \/ MainReturn
    \/ ChecksumFiles
    \/ CheckFilesOpen
    \/ CheckLine
    \/ CheckFilesReturn

-----------------------------------------------------------------------------
(* The inputs: command lines clap accepts, and a small file system.        *)

PathA == <<"a">>

PathB == <<"b">>

PathM == <<"m">>

PathU == <<"u">>

PathZ == <<"z">>

DataX == <<"x">>

DataY == <<"x", "y", "\n">>

DataS == <<"s", "t", "d", "i", "n">>

\* `a` and `b` are readable, `u` exists and cannot be read, `m` holds the
\* manifest, `z` (in no domain) does not exist.
Files(manifest) ==
    [p \in {PathA, PathB, PathM, PathU} |->
        CASE p = PathA -> [ok |-> TRUE, data |-> DataX]
          [] p = PathB -> [ok |-> TRUE, data |-> DataY]
          [] p = PathM -> [ok |-> TRUE, data |-> manifest]
          [] p = PathU -> [ok |-> FALSE, data |-> <<>>]]

\* the sequences over S of length 0..n
SeqsUpTo(S, n) == UNION {[1..k -> S] : k \in 0..n}

\* clap: --length is required_if_eq checksum_type "sha", "sha3", "blake2b"
\* (an exact, case-sensitive comparison of the argument)
ClapAccepts(name, opt) ==
    \/ opt.some
    \/ name \notin {<<"s","h","a">>, <<"s","h","a","3">>,
                    <<"b","l","a","k","e","2","b">>}

RECURSIVE CaseVariants(_)
\* every spelling of s in upper and lower case
CaseVariants(s) ==
    IF s = <<>> THEN {<<>>}
    ELSE {<<c>> \o v : c \in {LowerChar(Head(s)), UpperChar(Head(s))},
                        v \in CaseVariants(Tail(s))}

AliasTable == BLAKE2B_VALUES \cup {<<"s","h","a">>, <<"m","d","5">>, <<"s","h","a","3">>}

NonAliases ==
    { <<>>, <<"s","h","a","1">>, <<"S","H","A","-","2","5","6">>, <<"s","h">>,
      <<"m","d","4">>, <<"B","l","a","k","e","3">>, <<"b","2","b">>,
      <<"s","h","a"," ">>, <<"S","h","a","2">>, <<"c","r","c">> }

\* a command line: a name, an optional width and the flags
Config(name, opt) == [name |-> name, opt |-> opt]

\* the digest the tool itself prints for `data` under a configuration, and a
\* two-digit placeholder where the configuration computes none
DigestFor(cfg, data) ==
    LET r == FromStr(cfg.name)
        b == ResolveBitLength(r.value, cfg.opt)
        c == CalculateChecksum(r.value, b.value, data)
    IN  IF r.ok /\ b.ok /\ c.tag = "ok" THEN c.value ELSE <<"0", "0">>

\* the manifest lines the verification scenarios are built from
LineSamples(cfg) ==
    { <<>>,
      <<"a">>,
      Concat(<< DigestFor(cfg, DataX), <<" ", " ">>, PathA >>),
      Concat(<< DigestFor(cfg, DataX), <<" ", " ">>, PathB >>),
      Concat(<< <<"S","H","A","1"," ","(">>, PathB, <<")"," ","="," ">>,
                DigestFor(cfg, DataY) >>),
      <<"M","D","5"," ","(","a",")">>,
      Concat(<< DigestFor(cfg, DataX), <<" ", " ">>, PathZ >>),
      Concat(<< ToAsciiUppercase(DigestFor(cfg, DataX)), <<" ">>, PathA >>) }

\* manifests of at most MaxLines lines, each ended by a newline
Manifests(cfg) ==
    { Concat([i \in 1..Len(ls) |-> Append(ls[i], "\n")]) :
        ls \in SeqsUpTo(LineSamples(cfg), MaxLines) }

VerifyConfigs ==
    { Config(<<"s","h","a">>, Some(160)),
      Config(<<"S","H","A","3">>, Some(224)),
      Config(<<"m","D","5">>, None),
      Config(<<"b","2">>, Some(8)),
      Config(<<"b","l","a","k","e","2","b">>, Some(13)) }

DigestConfigs ==
    VerifyConfigs \cup
    { Config(<<"m","d","5">>, Some(7)),
      Config(<<"S","H","A">>, None),
      Config(<<"B","l","a","k","e">>, Some(16)),
      Config(<<"s","h","a","1">>, Some(160)) }

ArgsOf(cfg, files, check, bsd, stdin) ==
    [checksum_type |-> cfg.name, bit_length |-> cfg.opt, file_path |-> files,
     check |-> check, bsd |-> bsd, stdin |-> stdin]

RtIdle == [stage |-> "idle"]

\* the state main starts in, for one command line and one file system
Start(a, files) ==
    /\ ClapAccepts(a.checksum_type, a.bit_length)
    /\ args = a
    /\ fs = files
    /\ stdinBuf = DataS
    /\ pc = "start"
    /\ checksum = "unset"
    /\ bit_length = 0
    /\ fileIdx = 1
    /\ lines = <<>>
    /\ lineIdx = 1
    /\ out = <<>>
    /\ err = NoError
    /\ opened = <<>>
    /\ rt = RtIdle

\* --check over manifests built from LineSamples
InitVerify ==
    \E cfg \in VerifyConfigs :
    \E manifest \in Manifests(cfg) :
    \E files \in SeqsUpTo({PathM, PathZ}, MaxFiles) :
        Start(ArgsOf(cfg, files, TRUE, FALSE, FALSE), Files(manifest))

\* single-file digest mode
InitDigest ==
    \E cfg \in DigestConfigs :
    \E files \in SeqsUpTo({PathA, PathB, PathZ}, MaxFiles) :
    \E bsd \in BOOLEAN, stdin \in BOOLEAN :
        Start(ArgsOf(cfg, files, FALSE, bsd, stdin), Files(<<>>))

\* every spelling of every alias, and names outside the table
InitResolve ==
    \E name \in UNION {CaseVariants(s) : s \in AliasTable} \cup NonAliases :
    \E opt \in {None, Some(256)} :
        Start(ArgsOf(Config(name, opt), <<PathA>>, FALSE, FALSE, FALSE), Files(<<>>))

\* every width 0..MaxWidth for every kind
InitWidth ==
    \E name \in {<<"s","h","a">>, <<"s","h","a","3">>, <<"m","d","5">>,
                 <<"b","l","a","k","e","2","b">>} :
    \E w \in 0..MaxWidth :
        Start(ArgsOf(Config(name, Some(w)), <<PathA>>, FALSE, FALSE, FALSE), Files(<<>>))

Init == InitVerify \/ InitDigest \/ InitResolve \/ InitWidth

Spec == Init /\ [][Next]_vars

-----------------------------------------------------------------------------
(* What the properties below are stated with.                              *)

Terminal == pc \in {"done", "failed", "panicked"}

\* the documented valid-width sets
DocumentedWidth(kind, w) ==
    CASE kind = "Sha" -> w = 160 \/ w = 224 \/ w = 256 \/ w = 384 \/ w = 512
      [] kind = "Sha3" -> w = 224 \/ w = 256 \/ w = 384 \/ w = 512
      [] kind = "Blake2b" -> w % 8 = 0 /\ 8 <= w /\ w <= 512
      [] kind = "Md5" -> TRUE
      [] OTHER -> FALSE

\* the family name the engine's error carries
Family(kind) ==
    CASE kind = "Sha" -> "SHA"
      [] kind = "Sha3" -> "SHA3"
      [] kind = "Blake2b" -> "BLAKE2B"
      [] OTHER -> "none"

\* the documented alias table, on the lower-cased name
DocumentedKind(name) ==
    LET l == ToAsciiLowercase(name) IN
    CASE l = <<"s","h","a">> -> "Sha"
      [] l = <<"s","h","a","3">> -> "Sha3"
      [] l = <<"m","d","5">> -> "Md5"
      [] l \in { <<"b","l","a","k","e">>, <<"b","2">>, <<"b","l","a","k","e","2">>,
                 <<"b","l","a","k","e","2","b">> } -> "Blake2b"
      [] OTHER -> "none"

\* main got past the resolution of the algorithm and of the width
Resolved == pc \in {"loop", "check", "done"} \/ (Terminal /\ checksum # "unset" /\ err # UnwrapNone)

\* the request main resolved is one the engines accept
ValidRequest == Resolved /\ DocumentedWidth(checksum, bit_length)

\* checksum_files can read the k-th file argument
Readable(path) == path \in DOMAIN fs /\ fs[path].ok

\* the bytes checksum_files hashes for the k-th file argument
InputOf(k) ==
    IF args.stdin THEN (IF k = 1 THEN DataS ELSE <<>>)
    ELSE fs[args.file_path[k]].data

\* the digest token of an output line of checksum_files
DigestToken(text) ==
    LET parts == SplitWhitespace(text)
    IN  IF args.bsd THEN parts[Len(parts)] ELSE parts[1]

-----------------------------------------------------------------------------
(* C5: for kind in {Sha, Sha3, Blake2b} and every width w, the digest       *)
(* request is accepted if and only if w is in the kind's documented set;    *)
(* otherwise main fails with InvalidChecksumType carrying the requested w   *)
(* and prints no digest; an accepted width is used as given (the digest has *)
(* w / 4 hex digits), and no get_checksum fallback arm is ever taken.       *)
C5_WidthValidation ==
    (Resolved /\ checksum \in {"Sha", "Sha3", "Blake2b"}) =>
        LET valid == DocumentedWidth(checksum, bit_length) IN
        /\ bit_length = args.bit_length.value
        /\ err # Unreachable
        /\ err # UnexpectedError
        /\ err.kind = "InvalidChecksumType" =>
              /\ ~valid
              /\ err = InvalidChecksumType(Family(checksum), args.bit_length.value)
              /\ out = <<>>
        /\ out # <<>> => valid
        /\ (~args.check /\ Terminal /\ args.file_path # <<>>
              /\ (args.stdin \/ Readable(args.file_path[1]))) =>
              /\ valid <=> Len(out) >= 1
              /\ ~valid <=> err.kind = "InvalidChecksumType"
        /\ ~args.check =>
              \A k \in 1..Len(out) : Len(DigestToken(out[k].text)) * 4 = bit_length

\* C5 witness: Blake2b was asked for 520 bits and main failed with
\* InvalidChecksumType(520)
C5_Witness ==
    /\ pc = "failed"
    /\ checksum = "Blake2b"
    /\ err = InvalidChecksumType("BLAKE2B", 520)
    /\ out = <<>>

\* C6: from_str resolves every spelling of an alias, in any case, to the
\* alias's kind; for any other name main fails with an error carrying the
\* name exactly as typed, having resolved nothing, opened nothing and
\* printed nothing.
C6_AliasResolution ==
    pc # "start" =>
        LET k == DocumentedKind(args.checksum_type) IN
        IF k # "none"
        THEN checksum = k /\ err.kind # "ParseChecksumError"
        ELSE /\ pc = "failed"
             /\ err = [kind |-> "ParseChecksumError", value |-> args.checksum_type]
             /\ checksum = "unset"
             /\ out = <<>>
             /\ opened = <<>>

\* C6 witness: the mixed-case name "Blake3" was rejected with its casing kept
C6_Witness ==
    /\ pc = "failed"
    /\ args.checksum_type = <<"B","l","a","k","e","3">>
    /\ err.kind = "ParseChecksumError"
    /\ err.value = <<"B","l","a","k","e","3">>

\* C7: for Md5 the width argument is ignored: whatever --length holds (or
\* when it is absent) the width used is 128, main never fails with an
\* invalid-width error or on the missing option, and every digest printed
\* is the one a width of 128 gives.
C7_Md5IgnoresWidth ==
    (pc # "start" /\ checksum = "Md5") =>
        /\ bit_length = 128
        /\ err.kind # "InvalidChecksumType"
        /\ err # UnwrapNone
        /\ err # Unreachable
        /\ ~args.check =>
              \A k \in 1..Len(out) :
                 /\ DigestToken(out[k].text) = CalculateChecksum("Md5", 128, InputOf(k)).value
                 /\ Len(DigestToken(out[k].text)) = 32

\* C7 witness: md5 with --length 7 printed a digest
C7_Witness ==
    /\ checksum = "Md5"
    /\ args.bit_length = Some(7)
    /\ ~args.check
    /\ Len(out) >= 1

-----------------------------------------------------------------------------
(* Verification mode, as the documentation describes a manifest.           *)

\* the lines of the manifest named by the f-th file argument
ManifestLines(f) == Lines(fs[args.file_path[f]].data)

\* a line the documented format decodes: at least 2 tokens, and at least 4
\* when the second token opens with "("
IsTagged(parts) == Len(parts) >= 2 /\ parts[2][1] = "("

WellFormed(parts) == Len(parts) >= 2 /\ (IsTagged(parts) => Len(parts) >= 4)

\* the documented decoding of a well-formed line
DocumentedExpected(parts) == IF IsTagged(parts) THEN parts[4] ELSE parts[1]

DocumentedPath(parts) ==
    IF IsTagged(parts)
    THEN LET t == parts[2]
             first == CHOOSE i \in 1..(Len(t) + 1) :
                         (i = Len(t) + 1 \/ t[i] # "(") /\ \A j \in 1..(i - 1) : t[j] = "("
             last == CHOOSE i \in 0..Len(t) :
                         (i = 0 \/ t[i] # ")") /\ \A j \in (i + 1)..Len(t) : t[j] = ")"
         IN  SubSeq(t, first, last)
    ELSE parts[2]

\* the result line printed for line j of the f-th manifest, if any
HasResult(f, j) == \E k \in 1..Len(out) : out[k].file = f /\ out[k].line = j

\* every manifest named on the command line can be read
ManifestsReadable == \A f \in 1..Len(args.file_path) : Readable(args.file_path[f])

\* C3: every result line check_files prints belongs to a manifest line with
\* at least 2 tokens, names that line's path, and says OK exactly when the
\* line's expected digest equals, character for character, the digest of the
\* referenced file under the caller's kind and width (whatever label the
\* line carries), and FAILED otherwise; and, under a valid request, every
\* line check_files has gone past either had fewer than 2 tokens or has its
\* result line.
C3_OutcomeIsComparison ==
    (args.check /\ Resolved) =>
        /\ \A k \in 1..Len(out) :
              LET parts == SplitWhitespace(ManifestLines(out[k].file)[out[k].line])
                  path == DocumentedPath(parts)
                  actual == CalculateChecksum(checksum, bit_length, fs[path].data)
              IN  /\ WellFormed(parts)
                  /\ Readable(path)
                  /\ actual.tag = "ok"
                  /\ out[k].text =
                        IF DocumentedExpected(parts) = actual.value
                        THEN path \o <<":", " ", "O", "K">>
                        ELSE path \o <<":", " ", "F", "A", "I", "L", "E", "D">>
        /\ pc = "check" =>
              \A j \in 1..(lineIdx - 1) :
                 Len(SplitWhitespace(lines[j])) >= 2 => HasResult(fileIdx, j)

\* C3 witness: an entry whose expected digest is the right digest in upper
\* case was reported FAILED
C3_Witness ==
    /\ args.check
    /\ pc = "check"
    /\ \E k \in 1..Len(out) :
          LET parts == SplitWhitespace(ManifestLines(out[k].file)[out[k].line])
              actual == CalculateChecksum(checksum, bit_length, fs[PathA].data).value
          IN  /\ parts[2] = PathA
              /\ parts[1] # actual
              /\ parts[1] = ToAsciiUppercase(actual)
              /\ out[k].text = <<"a", ":", " ", "F", "A", "I", "L", "E", "D">>

\* C8: a step of check_files on a manifest line with fewer than 2 tokens
\* prints nothing, opens no file, raises no error, and leaves check_files
\* at the next line.
C8_ShortLineSkipped ==
    [][(pc = "check" /\ lineIdx <= Len(lines)
          /\ Len(SplitWhitespace(lines[lineIdx])) < 2) =>
       (/\ out' = out
        /\ opened' = opened
        /\ err' = err
        /\ pc' = "check"
        /\ lines' = lines
        /\ lineIdx' = lineIdx + 1
        /\ fileIdx' = fileIdx)]_vars

\* C8 witness: the first line had fewer than 2 tokens, nothing was printed
\* or opened for it, and the second line got its result
C8_Witness ==
    /\ pc = "check"
    /\ lineIdx = 3
    /\ Len(SplitWhitespace(lines[1])) < 2
    /\ Len(out) = 1
    /\ out[1].line = 2
    /\ Len(opened) = 2
    /\ err = NoError

\* C9: in single-file digest mode under a valid request, the output is one
\* complete line per file argument processed, in argument order; main stops
\* at the first file it cannot open or read, with that I/O error, having
\* printed the lines of the files before it and nothing for it or for any
\* file after it.
C9_DigestModeOrder ==
    (~args.check /\ ValidRequest) =>
        LET n == Len(args.file_path)
            bad == {i \in 1..n : ~args.stdin /\ ~Readable(args.file_path[i])}
            firstBad == IF bad = {} THEN n + 1 ELSE CHOOSE i \in bad : \A j \in bad : i <= j
        IN  /\ Len(out) = fileIdx - 1
            /\ fileIdx <= firstBad
            /\ \A k \in 1..Len(out) :
                  /\ out[k].file = k
                  /\ out[k].text =
                        RenderLine(checksum, bit_length, args.bsd, args.file_path[k],
                                   CalculateChecksum(checksum, bit_length, InputOf(k)).value)
                  /\ Len(DigestToken(out[k].text)) * 4 = bit_length
            /\ pc # "panicked"
            /\ pc = "done" => (firstBad = n + 1 /\ Len(out) = n /\ err = NoError)
            /\ pc = "failed" =>
                  (firstBad <= n /\ Len(out) = firstBad - 1
                     /\ err = Io(args.file_path[firstBad]))

\* C9 witness: of two files the second could not be opened: one line was
\* printed and main failed with the I/O error of the second
C9_Witness ==
    /\ ~args.check
    /\ pc = "failed"
    /\ args.file_path = <<PathA, PathZ>>
    /\ err = Io(PathZ)
    /\ Len(out) = 1
    /\ out[1].file = 1

\* every line of every manifest named on the command line is blank, a
\* single token, or well-formed
AllLinesWellFormed ==
    \A f \in 1..Len(args.file_path) :
       \A j \in 1..Len(ManifestLines(f)) :
          LET parts == SplitWhitespace(ManifestLines(f)[j])
          IN  Len(parts) >= 2 => WellFormed(parts)

\* every well-formed line of every manifest references a readable file
AllReferencedReadable ==
    \A f \in 1..Len(args.file_path) :
       \A j \in 1..Len(ManifestLines(f)) :
          LET parts == SplitWhitespace(ManifestLines(f)[j])
          IN  WellFormed(parts) => Readable(DocumentedPath(parts))

\* the well-formed lines of the f-th manifest that reference a readable file
ReadableEntries(f) ==
    {j \in 1..Len(ManifestLines(f)) :
        LET parts == SplitWhitespace(ManifestLines(f)[j])
        IN  WellFormed(parts) /\ Readable(DocumentedPath(parts))}

\* C1, as claimed: when main has ended --check over readable manifests whose
\* lines are all well-formed, under a valid request, every entry whose
\* referenced file is readable has its result line, also when an entry
\* before it references a file that cannot be opened.
C1_ContinuesPastIoFailure ==
    (args.check /\ ValidRequest /\ Terminal /\ ManifestsReadable
       /\ AllLinesWellFormed) =>
        \A f \in 1..Len(args.file_path) :
           \A j \in ReadableEntries(f) : HasResult(f, j)

\* C2, as claimed: when main has ended --check over readable manifests whose
\* referenced files are all readable, under a valid request, the output is
\* exactly one result line per well-formed entry, in manifest order.
C2_OneResultPerEntry ==
    (args.check /\ ValidRequest /\ Terminal /\ ManifestsReadable
       /\ AllReferencedReadable) =>
        /\ \A f \in 1..Len(args.file_path) :
              \A j \in ReadableEntries(f) :
                 Cardinality({k \in 1..Len(out) : out[k].file = f /\ out[k].line = j}) = 1
        /\ \A k \in 1..Len(out) : out[k].line \in ReadableEntries(out[k].file)
        /\ \A k \in 1..(Len(out) - 1) :
              \/ out[k].file < out[k + 1].file
              \/ out[k].file = out[k + 1].file /\ out[k].line < out[k + 1].line

\* C10, as claimed: decoding a manifest line with at least 2 tokens never
\* indexes past the end of its tokens.
C10_DecodeNeverPanics ==
    ~(pc = "panicked" /\ err = IndexOutOfBounds)

-----------------------------------------------------------------------------
(* The codec round trip: a line printed by checksum_files, decoded by the   *)
(* line decoder of check_files.                                             *)

MaxPathLen == 2

PathChars == {"a", " ", "(", ")", "\n"}

\* every kind with every width its engine accepts
ValidRequests ==
    {<<"Sha", w>> : w \in ShaValidValues} \cup {<<"Sha3", w>> : w \in Sha3ValidValues}
    \cup {<<"Blake2b", w>> : w \in Blake2bValidValues} \cup {<<"Md5", Md5Bits>>}

\* what println! writes for a line
Println(text) == Append(text, "\n")

\* the entries check_files decodes from a manifest text: for each line of
\* contents.lines() with at least 2 tokens, the pair DecodeLine gives
DecodeText(text) ==
    LET ls == Lines(text)
        entries == [i \in 1..Len(ls) |->
                       LET parts == SplitWhitespace(ls[i])
                       IN  IF SkipLine(parts) THEN [tag |-> "skip"] ELSE DecodeLine(parts)]
        IsEntry(e) == e.tag # "skip"
    IN  SelectSeq(entries, IsEntry)

InitCodec ==
    /\ \E kw \in ValidRequests :
       \E path \in SeqsUpTo(PathChars, MaxPathLen) :
       \E tagged \in BOOLEAN :
          rt = [stage |-> "input", kind |-> kw[1], bits |-> kw[2], path |-> path,
                digest |-> CalculateChecksum(kw[1], kw[2], DataX).value,
                tagged |-> tagged, text |-> <<>>, decoded |-> <<>>]
    /\ args = ArgsOf(Config(<<"m","d","5">>, None), <<>>, FALSE, FALSE, FALSE)
    /\ fs = Files(<<>>)
    /\ stdinBuf = <<>>
    /\ pc = "done"
    /\ checksum = "Md5"
    /\ bit_length = Md5Bits
    /\ fileIdx = 1
    /\ lines = <<>>
    /\ lineIdx = 1
    /\ out = <<>>
    /\ err = NoError
    /\ opened = <<>>

\* checksum_files prints the line for (kind, bits, path, digest, tagged)
CodecRender ==
    /\ rt.stage = "input"
    /\ rt' = [rt EXCEPT !.stage = "rendered",
                        !.text = Println(RenderLine(rt.kind, rt.bits, rt.tagged,
                                                    rt.path, rt.digest))]
    /\ UNCHANGED <<args, fs, stdinBuf, pc, checksum, bit_length, fileIdx, lines,
                   lineIdx, out, err, opened>>

\* check_files decodes what was printed
CodecDecode ==
    /\ rt.stage = "rendered"
    /\ rt' = [rt EXCEPT !.stage = "decoded", !.decoded = DecodeText(rt.text)]
    /\ UNCHANGED <<args, fs, stdinBuf, pc, checksum, bit_length, fileIdx, lines,
                   lineIdx, out, err, opened>>

NextCodec == CodecRender \/ CodecDecode

SpecCodec == InitCodec /\ [][NextCodec]_vars

\* the path survives both styles: no whitespace, no leading "("; no trailing
\* ")" in the tagged style; not empty in the default style
PlainPath(path, tagged) ==
    /\ \A i \in 1..Len(path) : path[i] \notin {" ", "\t", "\n", "\r"}
    /\ ~(Len(path) > 0 /\ path[1] = "(")
    /\ tagged => ~(Len(path) > 0 /\ path[Len(path)] = ")")
    /\ ~tagged => path # <<>>

\* C4, as claimed: for every kind, valid width, path, digest and style,
\* decoding the printed line gives exactly the one pair (digest, path).
C4_RoundTripEveryPath ==
    rt.stage = "decoded" =>
        rt.decoded = <<[tag |-> "ok", expected |-> rt.digest, path |-> rt.path]>>

\* C4, amended: for every kind, valid width, digest and style, and every
\* path without whitespace and without a leading "(" that, in the tagged
\* style, does not end with ")" and, in the default style, is not empty,
\* decoding the printed line gives exactly the one pair (digest, path).
C4_RoundTripPlainPath ==
    (rt.stage = "decoded" /\ PlainPath(rt.path, rt.tagged)) =>
        rt.decoded = <<[tag |-> "ok", expected |-> rt.digest, path |-> rt.path]>>

\* C4 witness: a tagged SHA1 line for the path "aa" was decoded back to its
\* digest and path
C4_Witness ==
    /\ rt.stage = "decoded"
    /\ rt.kind = "Sha"
    /\ rt.bits = 160
    /\ rt.tagged
    /\ rt.path = <<"a", "a">>
    /\ rt.decoded = <<[tag |-> "ok", expected |-> rt.digest, path |-> <<"a", "a">>]>>

=============================================================================
